---- MODULE Spec2Model ----
(***************************************************************************)
(* ReboundOp (exoplanet/theano_ops/rebound/rebound.py): a Theano Op whose  *)
(* perform() feeds masses and coordinates into a REBOUND simulation,       *)
(* integrates it to every requested time and copies the particle states    *)
(* into a result tensor.                                                   *)
(*                                                                         *)
(* Arrays are functions on 0-based index ranges, as in numpy.  Floating    *)
(* point values are modelled by integers, a quotient by a reduced          *)
(* fraction <<numerator, denominator>>.                                    *)
(*                                                                         *)
(* REBOUND itself is an external library.  Its object model is kept as the *)
(* wrapper uses it: Simulation() starts with G = 1, t = 0 and no           *)
(* particles; add() appends a particle; integrate(tmax) integrates the     *)
(* system until the simulation clock equals tmax (the argument is the      *)
(* final time, not a duration).  The gravitational dynamics are replaced   *)
(* by a small exact stand-in (one kick-drift step, pairwise force of       *)
(* magnitude G*m along each axis) that keeps what matters here: the motion *)
(* is a deterministic function of G, the masses and the states, it does    *)
(* not depend on the order of the particles, and a particle without        *)
(* neighbours moves uniformly.                                             *)
(***************************************************************************)
EXTENDS Integers, Sequences, FiniteSets, TLC

VARIABLES
    inputs,      \* [masses, coords, times] of the current call of perform
    pc,          \* position in make_node / perform
    node,        \* the Apply node built by make_node: declared output type
    sim,         \* the rebound.Simulation most recently constructed
    results,     \* the local array `results` of perform
    i,           \* index of the next time to process (loop of line 50)
    nintegrate,  \* number of sim.integrate calls made by the current call
    outputs,     \* the values stored into the cell outputs[0][0], oldest first
    target,      \* SpecCalls: the inputs the sequence of calls is built from
    perm,        \* SpecCalls: the transposition <<a, b>> of particle indices
    calls        \* SpecCalls: the calls made, in order; `out` is the position
                 \* in outputs of the value a call stored

vars == <<inputs, pc, node, sim, results, i, nintegrate, outputs,
          target, perm, calls>>

-----------------------------------------------------------------------------
(* Bounds of the model *)

MaxN == 3
MaxT == 2
MaxCalls == 2

\* Values the mass vector, the time vector and the coordinate rows range over.
MassVals == {1, 2}
TimeVals == {0, 1, 2}

\* Number of state components of a particle: "x y z vx vy vz".split()
NCOORD == 6

None == "None"
IndexError == "IndexError"

\* Values the memory handed out by np.empty can hold.
HeapVals == {-9, 9}

-----------------------------------------------------------------------------
(* numpy helpers *)

Len0(a) == Cardinality(DOMAIN a)

Arrays(n, S) == [0 .. (n - 1) -> S]

ArraysUpTo(n, S) == UNION {Arrays(m, S) : m \in 0 .. n}

RowRest == [k \in 0 .. (NCOORD - 1) |-> 0]
RowMove == [k \in 0 .. (NCOORD - 1) |-> IF k = 0 \/ k = 4 THEN 1 ELSE 0]
Rows == {RowRest, RowMove}

RECURSIVE GCD(_, _)
GCD(a, b) == IF b = 0 THEN a ELSE GCD(b, a % b)

\* a / b under `from __future__ import division`, for positive a and b
TrueDiv(a, b) == <<a \div GCD(a, b), b \div GCD(a, b)>>

FracEq(q, a, b) == q[1] * b = a * q[2]

-----------------------------------------------------------------------------
(* make_node: the declared type of the output (lines 18-26).  A tensor type *)
(* is its broadcastable pattern: TRUE marks an axis fixed to length 1.      *)

\* tt.as_tensor_variable of a symbolic vector (ndim = 1) or matrix (ndim = 2)
AsTensorVariable(ndim) == [d \in 1 .. ndim |-> FALSE]

\* tt.shape_padright(x): one broadcastable axis appended on the right
ShapePadRight(b) == b \o <<TRUE>>

\* tt.shape_padleft(x): one broadcastable axis prepended on the left
ShapePadLeft(b) == <<TRUE>> \o b

PadTo(b, n) == [d \in 1 .. (n - Len(b)) |-> TRUE] \o b

Max(a, b) == IF a >= b THEN a ELSE b

\* x + y on tensor variables: the shorter pattern is padded on the left with
\* broadcastable axes, an axis of the sum is broadcastable iff it is in both.
TensorAdd(b1, b2) ==
    LET n == Max(Len(b1), Len(b2))
    IN  [d \in 1 .. n |-> PadTo(b1, n)[d] /\ PadTo(b2, n)[d]]

\* (tt.shape_padright(in_args[2]) + tt.shape_padleft(in_args[1])).type()
OutType(in_args) == TensorAdd(ShapePadRight(in_args[3]), ShapePadLeft(in_args[2]))

MakeNodeType ==
    OutType(<<AsTensorVariable(1), AsTensorVariable(2), AsTensorVariable(1)>>)

\* A value of shape `shape` is a value of the tensor type `bcast`.
Admits(bcast, shape) ==
    /\ Len(bcast) = Len(shape)
    /\ \A d \in 1 .. Len(bcast) : bcast[d] => shape[d] = 1

-----------------------------------------------------------------------------
(* The REBOUND object model used by perform *)

\* rebound.Simulation()
Simulation == [G |-> 1, t |-> 0, particles |-> <<>>]

\* sim.add(m=..., x=..., y=..., z=..., vx=..., vy=..., vz=...); `src` records
\* the input row the particle was created from (bookkeeping of the model).
SimAdd(s, m, x, y, z, vx, vy, vz, src) ==
    LET n == Len0(s.particles)
        p == [m |-> m, x |-> x, y |-> y, z |-> z,
              vx |-> vx, vy |-> vy, vz |-> vz, src |-> src]
    IN  [s EXCEPT !.particles =
            [j \in 0 .. n |-> IF j < n THEN s.particles[j] ELSE p]]

Sgn(v) == IF v > 0 THEN 1 ELSE IF v < 0 THEN -1 ELSE 0

\* G * m of a particle (exact: the denominator of m divides G * numerator here)
Mu(G, m) == (G * m[1]) \div m[2]

RECURSIVE SumOver(_, _, _, _, _)
SumOver(S, parts, G, j, c) ==
    IF S = {} THEN 0
    ELSE LET l == CHOOSE l \in S : TRUE
         IN  Mu(G, parts[l].m) * Sgn(parts[l][c] - parts[j][c])
             + SumOver(S \ {l}, parts, G, j, c)

\* acceleration of particle j along the axis named c
Acc(parts, G, j, c) == SumOver((DOMAIN parts) \ {j}, parts, G, j, c)

\* sim.integrate(tmax): the system is advanced from sim.t to tmax
Integrate(s, tmax) ==
    LET dt == tmax - s.t
        P  == s.particles
        kick(j, c, vc) == P[j][vc] + Acc(P, s.G, j, c) * dt
        move(j) ==
            LET nvx == kick(j, "x", "vx")
                nvy == kick(j, "y", "vy")
                nvz == kick(j, "z", "vz")
            IN  [m |-> P[j].m, src |-> P[j].src,
                 vx |-> nvx, vy |-> nvy, vz |-> nvz,
                 x |-> P[j].x + nvx * dt,
                 y |-> P[j].y + nvy * dt,
                 z |-> P[j].z + nvz * dt]
    IN  [G |-> s.G, t |-> tmax, particles |-> [j \in DOMAIN P |-> move(j)]]

-----------------------------------------------------------------------------
(* perform (lines 31-56): the pieces *)

\* The inputs a call can receive: any lengths, so also mismatched ones.
Inputs ==
    [masses : ArraysUpTo(MaxN, MassVals),
     coords : ArraysUpTo(MaxN, Rows),
     times  : ArraysUpTo(MaxT, TimeVals)]

\* The precondition of the op: at least the primary, one coords row per mass
Valid(inp) == Len0(inp.masses) >= 1 /\ Len0(inp.coords) = Len0(inp.masses)

\* times.shape and coords.shape
TimesShape(times) == <<Len0(times)>>
CoordsShape(coords) == <<Len0(coords), NCOORD>>

Index(shape) ==
    (0 .. (shape[1] - 1)) \X (0 .. (shape[2] - 1)) \X (0 .. (shape[3] - 1))

\* np.empty(shape): the elements are not initialised, they hold what the
\* allocation finds in memory (g).  `assigned` is bookkeeping of the model:
\* the elements written since the allocation.
NpEmpty(shape, g) ==
    [shape |-> shape, data |-> [idx \in Index(shape) |-> g], assigned |-> {}]

\* The shape with the coords axes first.
NewResultsCoordsFirst(times, coords, g) ==
    NpEmpty(CoordsShape(coords) \o TimesShape(times), g)

\* line 38: results = np.empty(list(times.shape) + list(coords.shape))
NewResults(times, coords, g) ==
    NpEmpty(TimesShape(times) \o CoordsShape(coords), g)

\* line 41: sim.G = masses[0]**2
GravConst(masses) == masses[0] * masses[0]

\* The primary stored with its own mass.
PrimaryMassFromInput(masses) == <<masses[0], 1>>

\* line 42: m=1.
PrimaryMass(masses) == <<1, 1>>

\* The mass taken relative to the particle before it.
SecondaryMassOfPrevious(masses, n) == TrueDiv(masses[n], masses[n - 1])

\* line 46: m=masses[i] / masses[0]
SecondaryMass(masses, n) == TrueDiv(masses[n], masses[0])

\* lines 42-43 and 45-48: the row coords[n, 0..5] becomes x, y, z, vx, vy, vz
AddRow(s, m, coords, n) ==
    SimAdd(s, m, coords[n][0], coords[n][1], coords[n][2],
           coords[n][3], coords[n][4], coords[n][5], n)

\* lines 40-43: a new simulation holding the primary
NewSimWithPrimary(masses, coords) ==
    AddRow([Simulation EXCEPT !.G = GravConst(masses)],
           PrimaryMass(masses), coords, 0)

\* line 51: the argument handed to sim.integrate
IntegrateArg(t, s) == t - s.t

\* The velocities named before the positions.
CoordNamesVelocityFirst == <<"vx", "vy", "vz", "x", "y", "z">>

\* line 53: "x y z vx vy vz".split()
CoordNames == <<"x", "y", "z", "vx", "vy", "vz">>

\* The particles written in reverse order.
ReadOutReversed(res, it, s) ==
    LET n == Len0(s.particles)
        hit(idx) == idx[1] = it /\ idx[2] \in DOMAIN s.particles
    IN  [res EXCEPT
            !.data =
                [idx \in DOMAIN res.data |->
                    IF hit(idx)
                    THEN s.particles[n - 1 - idx[2]][CoordNames[idx[3] + 1]]
                    ELSE res.data[idx]],
            !.assigned = res.assigned \cup {idx \in DOMAIN res.data : hit(idx)}]

\* lines 52-54: results[it, j, k] = getattr(part, coord), for every particle
\* j of enumerate(sim.particles) and every k of enumerate(CoordNames)
ReadOut(res, it, s) ==
    LET hit(idx) == idx[1] = it /\ idx[2] \in DOMAIN s.particles
    IN  [res EXCEPT
            !.data =
                [idx \in DOMAIN res.data |->
                    IF hit(idx)
                    THEN s.particles[idx[2]][CoordNames[idx[3] + 1]]
                    ELSE res.data[idx]],
            !.assigned = res.assigned \cup {idx \in DOMAIN res.data : hit(idx)}]

\* results[it, j, k] exists for every particle j
ReadOutFits(res, s) ==
    \A j \in DOMAIN s.particles : j \in 0 .. (res.shape[2] - 1)

-----------------------------------------------------------------------------
(* perform, one step at a time *)

num == Len0(inputs.masses)

\* Graph construction: make_node declares the output variable.
MakeNode ==
    /\ pc = "make_node"
    /\ node' = MakeNodeType
    /\ pc' = "perform"
    /\ UNCHANGED <<inputs, sim, results, i, nintegrate, outputs, target, perm, calls>>

\* lines 35-43
Begin ==
    /\ pc = "perform"
    /\ Len0(inputs.masses) > 0
    /\ Len0(inputs.coords) > 0
    /\ \E g \in HeapVals : results' = NewResults(inputs.times, inputs.coords, g)
    /\ sim' = NewSimWithPrimary(inputs.masses, inputs.coords)
    /\ i' = 0
    /\ nintegrate' = 0
    /\ pc' = "add"
    /\ UNCHANGED <<inputs, node, outputs, target, perm, calls>>

\* line 41 (masses[0]) or line 42 (coords[0, 0]) on an empty array
BeginRaise ==
    /\ pc = "perform"
    /\ Len0(inputs.masses) = 0 \/ Len0(inputs.coords) = 0
    /\ \E g \in HeapVals : results' = NewResults(inputs.times, inputs.coords, g)
    /\ sim' = IF Len0(inputs.masses) = 0
              THEN Simulation
              ELSE [Simulation EXCEPT !.G = GravConst(inputs.masses)]
    /\ pc' = "raised"
    /\ UNCHANGED <<inputs, node, i, nintegrate, outputs, target, perm, calls>>

\* lines 44-48, one iteration
AddParticle ==
    /\ pc = "add"
    /\ Len0(sim.particles) < num
    /\ Len0(sim.particles) < Len0(inputs.coords)
    /\ sim' = AddRow(sim, SecondaryMass(inputs.masses, Len0(sim.particles)),
                     inputs.coords, Len0(sim.particles))
    /\ UNCHANGED <<inputs, pc, node, results, i, nintegrate, outputs, target, perm, calls>>

\* line 47: coords[i, 0] with i beyond the last row
AddRaise ==
    /\ pc = "add"
    /\ Len0(sim.particles) < num
    /\ Len0(sim.particles) >= Len0(inputs.coords)
    /\ pc' = "raised"
    /\ UNCHANGED <<inputs, node, sim, results, i, nintegrate, outputs, target, perm, calls>>

\* line 50, first entry into the loop over the times
EnterLoop ==
    /\ pc = "add"
    /\ Len0(sim.particles) = num
    /\ pc' = "loop"
    /\ UNCHANGED <<inputs, node, sim, results, i, nintegrate, outputs, target, perm, calls>>

\* lines 50-54, one iteration
IntegrateStep ==
    /\ pc = "loop"
    /\ i < Len0(inputs.times)
    /\ LET s == Integrate(sim, IntegrateArg(inputs.times[i], sim))
       IN  /\ sim' = s
           /\ nintegrate' = nintegrate + 1
           /\ IF ReadOutFits(results, s)
              THEN /\ results' = ReadOut(results, i, s)
                   /\ i' = i + 1
                   /\ pc' = pc
              ELSE /\ pc' = "raised"
                   /\ UNCHANGED <<results, i>>
    /\ UNCHANGED <<inputs, node, outputs, target, perm, calls>>

\* line 56: outputs[0][0] = results
Store ==
    /\ pc = "loop"
    /\ i = Len0(inputs.times)
    /\ outputs' = Append(outputs, results)
    /\ pc' = "done"
    /\ UNCHANGED <<inputs, node, sim, results, i, nintegrate, target, perm, calls>>

Init ==
    /\ inputs \in Inputs
    /\ pc = "make_node"
    /\ node = None
    /\ sim = None
    /\ results = None
    /\ i = 0
    /\ nintegrate = 0
    /\ outputs = <<>>
    /\ target = None
    /\ perm = <<0, 0>>
    /\ calls = <<>>

Next ==
    \/ MakeNode
    \/ Begin
    \/ BeginRaise
    \/ AddParticle
    \/ AddRaise
    \/ EnterLoop
    \/ IntegrateStep
    \/ Store

Spec == Init /\ [][Next]_vars

-----------------------------------------------------------------------------
(* perform as one operation: a sequence of calls of the compiled op *)

\* lines 44-48 from particle n on
RECURSIVE AddFrom(_, _, _, _)
AddFrom(s, masses, coords, n) ==
    IF n >= Len0(masses) THEN [raised |-> FALSE, sim |-> s]
    ELSE IF n >= Len0(coords) THEN [raised |-> TRUE, error |-> IndexError]
    ELSE AddFrom(AddRow(s, SecondaryMass(masses, n), coords, n), masses, coords, n + 1)

\* lines 40-48
Setup(masses, coords) ==
    IF Len0(masses) = 0 \/ Len0(coords) = 0
    THEN [raised |-> TRUE, error |-> IndexError]
    ELSE AddFrom(NewSimWithPrimary(masses, coords), masses, coords, 1)

\* lines 50-54 from time index it on
RECURSIVE RunTimes(_, _, _, _)
RunTimes(s, res, times, it) ==
    IF it >= Len0(times) THEN [sim |-> s, results |-> res]
    ELSE LET s2 == Integrate(s, IntegrateArg(times[it], s))
         IN  RunTimes(s2, ReadOut(res, it, s2), times, it + 1)

\* lines 35-56: what the call leaves, or that it raised
Perform(inp, g) ==
    LET s0 == Setup(inp.masses, inp.coords)
    IN  IF s0.raised
        THEN s0
        ELSE [raised |-> FALSE,
              run |-> RunTimes(s0.sim, NewResults(inp.times, inp.coords, g), inp.times, 0)]

\* The exchange <<a, b>> of two particle indices
Swap(p, j) == IF j = p[1] THEN p[2] ELSE IF j = p[2] THEN p[1] ELSE j

\* masses and coords rows reordered: entry j of the new arrays is entry p(j)
PermuteInputs(inp, p) ==
    [masses |-> [j \in DOMAIN inp.masses |-> inp.masses[Swap(p, j)]],
     coords |-> [j \in DOMAIN inp.coords |-> inp.coords[Swap(p, j)]],
     times  |-> inp.times]

\* The identity and the exchanges of two neighbours: every permutation is a
\* product of these.
Transpositions(inp) ==
    IF Valid(inp)
    THEN {<<0, 0>>} \cup
         {p \in (DOMAIN inp.masses) \X (DOMAIN inp.masses) : p[2] = p[1] + 1}
    ELSE {<<0, 0>>}

\* The calls of a session alternate between the target inputs and the
\* same inputs with two particles exchanged.
NextInputs == IF Len(calls) % 2 = 0 THEN target ELSE PermuteInputs(target, perm)

Call ==
    /\ pc \in {"idle", "done", "raised"}
    /\ Len(calls) < MaxCalls
    /\ inputs' = NextInputs
    /\ \E g \in HeapVals : \E r \in {Perform(NextInputs, g)} :
              IF r.raised
              THEN /\ pc' = "raised"
                   /\ calls' = Append(calls, [inputs |-> NextInputs, raised |-> TRUE])
                   /\ UNCHANGED <<sim, results, i, nintegrate, outputs>>
              ELSE /\ pc' = "done"
                   /\ sim' = r.run.sim
                   /\ results' = r.run.results
                   /\ i' = Len0(NextInputs.times)
                   /\ nintegrate' = Len0(NextInputs.times)
                   /\ outputs' = Append(outputs, r.run.results)
                   /\ calls' = Append(calls, [inputs |-> NextInputs, raised |-> FALSE,
                                              out |-> Len(outputs) + 1])
    /\ UNCHANGED <<node, target, perm>>

\* The inputs the sessions are built from: those perform runs to the end on
\* (one coords row per mass at least), with times that move the particles.
CallInputs ==
    {inp \in [masses : ArraysUpTo(MaxN, MassVals),
              coords : ArraysUpTo(MaxN, Rows),
              times  : ArraysUpTo(MaxT, TimeVals \ {0})] :
        /\ Len0(inp.masses) >= 1
        /\ Len0(inp.coords) >= Len0(inp.masses)}

InitCalls ==
    /\ target \in CallInputs
    /\ perm \in Transpositions(target)
    /\ inputs = None
    /\ pc = "idle"
    /\ node = MakeNodeType
    /\ sim = None
    /\ results = None
    /\ i = 0
    /\ nintegrate = 0
    /\ outputs = <<>>
    /\ calls = <<>>

NextCalls == Call

SpecCalls == InitCalls /\ [][NextCalls]_vars

\* Lemma: the step-by-step run and the one-operation run end alike.
StepwiseAgrees ==
    /\ pc = "done" =>
          \E g \in HeapVals :
             /\ ~Perform(inputs, g).raised
             /\ Perform(inputs, g).run = [sim |-> sim, results |-> results]
    /\ pc = "raised" => \A g \in HeapVals : Perform(inputs, g).raised

-----------------------------------------------------------------------------
(* Properties of one call *)

T == Len0(inputs.times)
R == Len0(inputs.coords)
Running == pc \in {"loop", "done"}

\* C1: for valid inputs perform never raises and its two loops stay within
\* len(masses) particles and len(times) iterations, so it reaches line 56;
\* the result has shape (T, N, 6); for T = 0 no integrate call is made and
\* the stored tensor has shape (0, N, 6) and no element.
C1_ValidInputsGiveShapeTN6 ==
    Valid(inputs) =>
        /\ pc # "raised"
        /\ pc = "add" => Len0(sim.particles) <= num
        /\ pc = "loop" => (i <= T /\ nintegrate = i)
        /\ pc \in {"add", "loop", "done"} => results.shape = <<T, num, 6>>
        /\ pc = "done" =>
              /\ Len(outputs) = 1
              /\ outputs[1].shape = <<T, num, 6>>
              /\ DOMAIN outputs[1].data = Index(<<T, num, 6>>)
              /\ T = 0 => nintegrate = 0 /\ DOMAIN outputs[1].data = {}

C1_Witness ==
    /\ pc = "done"
    /\ Valid(inputs)
    /\ T = 0
    /\ num = 2
    /\ outputs[1].shape = <<0, 2, 6>>

\* C2: after the iteration for times[i] the simulation clock equals times[i].
C2_ClockEqualsRequestedTime ==
    (Running /\ i >= 1) => sim.t = inputs.times[i - 1]

\* C4 as stated: with one particle every output state equals the input state.
C4_LoneBodyKeepsItsState ==
    (Running /\ num = 1) =>
        \A t \in 0 .. (i - 1) : \A k \in 0 .. 5 :
            results.data[<<t, 0, k>>] = inputs.coords[0][k]

\* C4: with one particle every output velocity equals the input velocity, a
\* position component whose velocity component is zero equals its input
\* value, and the position read out last is the input position moved
\* uniformly for the time on the simulation clock.
C4_LoneBodyMovesUniformly ==
    (Running /\ num = 1) =>
        /\ \A t \in 0 .. (i - 1) : \A k \in 0 .. 2 :
              /\ results.data[<<t, 0, k + 3>>] = inputs.coords[0][k + 3]
              /\ inputs.coords[0][k + 3] = 0 =>
                    results.data[<<t, 0, k>>] = inputs.coords[0][k]
        /\ i >= 1 =>
              \A k \in 0 .. 2 :
                  results.data[<<i - 1, 0, k>>] =
                      inputs.coords[0][k] + inputs.coords[0][k + 3] * sim.t

C4_Witness ==
    /\ pc = "done"
    /\ num = 1
    /\ R = 1
    /\ T = 2
    /\ outputs[1].data[<<1, 0, 1>>] # inputs.coords[0][1]
    /\ outputs[1].data[<<1, 0, 4>>] = inputs.coords[0][4]

\* C6: when len(masses) differs from the number of coords rows, perform raises
\* and stores nothing.
C6_MismatchedLengthsRaise ==
    Len0(inputs.masses) # Len0(inputs.coords) => (pc # "done" /\ outputs = <<>>)

\* C7: a call that raises leaves the output cell alone, the cell is written at
\* most once, and a stored tensor has every element (t, i, k), t < T,
\* i < coords rows, k < 6, assigned from a particle.
C7_NoPartialResult ==
    /\ pc = "raised" => outputs = <<>>
    /\ Len(outputs) <= 1
    /\ outputs # <<>> =>
          /\ pc = "done" /\ i = T
          /\ \A idx \in Index(<<T, R, 6>>) : idx \in outputs[1].assigned

\* C8: the type make_node declares for the output admits the shape (T, N, 6)
\* of the value perform stores.
C8_DeclaredTypeAdmitsValue ==
    (pc = "done" /\ Valid(inputs)) => Admits(node, outputs[1].shape)

\* C9: from the first integrate call on the simulation holds exactly
\* len(masses) particles, in input order, G is masses[0]^2, particle 0 has
\* mass 1 and particle i mass masses[i] / masses[0]; before the first integrate
\* call every particle has the state of its coords row.
C9_SetUp ==
    Running =>
        /\ DOMAIN sim.particles = 0 .. (num - 1)
        /\ \A j \in DOMAIN sim.particles : sim.particles[j].src = j
        /\ sim.G = inputs.masses[0] * inputs.masses[0]
        /\ sim.particles[0].m = <<1, 1>>
        /\ \A j \in 1 .. (num - 1) :
              FracEq(sim.particles[j].m, inputs.masses[j], inputs.masses[0])
        /\ nintegrate = 0 =>
              \A j \in DOMAIN sim.particles :
                  /\ sim.particles[j].x = inputs.coords[j][0]
                  /\ sim.particles[j].y = inputs.coords[j][1]
                  /\ sim.particles[j].z = inputs.coords[j][2]
                  /\ sim.particles[j].vx = inputs.coords[j][3]
                  /\ sim.particles[j].vy = inputs.coords[j][4]
                  /\ sim.particles[j].vz = inputs.coords[j][5]

C9_Witness ==
    /\ pc = "loop"
    /\ nintegrate = 0
    /\ num = 3
    /\ inputs.masses[0] = 2
    /\ inputs.masses[1] = 1
    /\ inputs.coords[1] # inputs.coords[0]

\* C10: an iteration of the loop over the times writes, for every particle j
\* (the one created from input row j) and every k, component k in the order
\* x, y, z, vx, vy, vz of the particle as it is after this advance into
\* results[i, j, k], and leaves the rows of the earlier times as they are; the
\* stored tensor is that array.
C10_IndexCorrespondence ==
    [][/\ (pc = "loop" /\ pc' = "loop" /\ i' = i + 1) =>
            /\ \A j \in DOMAIN sim'.particles :
                  /\ sim'.particles[j].src = j
                  /\ results'.data[<<i, j, 0>>] = sim'.particles[j].x
                  /\ results'.data[<<i, j, 1>>] = sim'.particles[j].y
                  /\ results'.data[<<i, j, 2>>] = sim'.particles[j].z
                  /\ results'.data[<<i, j, 3>>] = sim'.particles[j].vx
                  /\ results'.data[<<i, j, 4>>] = sim'.particles[j].vy
                  /\ results'.data[<<i, j, 5>>] = sim'.particles[j].vz
            /\ \A idx \in DOMAIN results.data :
                  idx[1] # i => results'.data[idx] = results.data[idx]
       /\ (pc = "loop" /\ pc' = "done") => outputs'[1] = results
      ]_vars

C10_Witness ==
    /\ pc = "done"
    /\ num = 2
    /\ R = 2
    /\ T = 2
    /\ outputs[1].data[<<1, 0, 0>>] # outputs[1].data[<<1, 1, 0>>]
    /\ outputs[1].data[<<1, 1, 0>>] # outputs[1].data[<<0, 1, 0>>]

-----------------------------------------------------------------------------
(* Properties of several calls *)

Stored(c) == outputs[calls[c].out]

BothStored == Len(calls) >= 2 /\ ~calls[1].raised /\ ~calls[2].raised

\* C3 as stated: for every exchange of two particles, the primary included,
\* the call on the reordered inputs stores the reordered result of the call on
\* the original inputs.
C3_PermutationEquivariance ==
    (Valid(target) /\ BothStored) =>
        \A idx \in DOMAIN Stored(2).data :
            Stored(2).data[idx] = Stored(1).data[<<idx[1], Swap(perm, idx[2]), idx[3]>>]

\* C3: for every reordering that leaves the primary at index 0, the call on
\* the reordered inputs stores the reordered result of the call on the
\* original inputs.
C3_EquivarianceFixingPrimary ==
    (Valid(target) /\ BothStored /\ Swap(perm, 0) = 0) =>
        /\ Stored(2).shape = Stored(1).shape
        /\ \A idx \in DOMAIN Stored(2).data :
              Stored(2).data[idx] =
                  Stored(1).data[<<idx[1], Swap(perm, idx[2]), idx[3]>>]

C3_Witness ==
    /\ Valid(target)
    /\ BothStored
    /\ perm = <<1, 2>>
    /\ target.masses[1] # target.masses[2]
    /\ target.coords[1] # target.coords[2]
    /\ Len0(target.times) = 2
    /\ Stored(2).data # Stored(1).data

\* C5: two calls with identical inputs store identical tensors.
C5_SameInputsSameResult ==
    \A a, b \in DOMAIN calls :
        (calls[a].inputs = calls[b].inputs /\ ~calls[a].raised /\ ~calls[b].raised) =>
            /\ Stored(a).shape = Stored(b).shape
            /\ Stored(a).data = Stored(b).data

\* Lemma: with one coords row per mass nothing of a call reaches the next one,
\* two calls with identical inputs store identical tensors.
SameValidInputsSameResult ==
    \A a, b \in DOMAIN calls :
        (calls[a].inputs = calls[b].inputs /\ Valid(calls[a].inputs)
            /\ ~calls[a].raised /\ ~calls[b].raised) =>
            Stored(a).data = Stored(b).data

====
